---- MODULE Spec2Model ----
(***************************************************************************)
(* dnsbench: a sequential DNS benchmark.  main (src/main.rs) runs a        *)
(* rate-limited loop of `attempts` rounds over the server list, calling    *)
(* resolve (src/utils.rs) once per (attempt, server); it then folds the    *)
(* raw results into one histogram per list entry, sorts the summaries by   *)
(* mean latency and renders one table row per summary.                     *)
(*                                                                         *)
(* Time is an integer number of microseconds.  The clock `now` advances    *)
(* only in the two blocking calls of the program: std::thread::sleep and   *)
(* UdpSocket::recv_from.                                                   *)
(***************************************************************************)
EXTENDS Integers, Sequences, FiniteSets, Bags, TLC

(***************************************************************************)
(* Bounds of the model and the input domains drawn from them.              *)
(***************************************************************************)
MaxServers == 3

MaxAttempts == 2

MaxRequests == 4

SleepOvershoot == 300

AddrOrder == <<"1.1.1.1", "8.8.8.8", "9.9.9.9">>

Addrs == {AddrOrder[k] : k \in 1..Len(AddrOrder)}

RateLimits == {0, 1}

\* round-trip times (microseconds) of a datagram that arrives before the timeout
Latencies == {10400, 50900}

(***************************************************************************)
(* Program constants.                                                      *)
(***************************************************************************)
MicrosPerSec == 1000000

MicrosPerMilli == 1000

ReadTimeoutSecs == 3

SubBucketCount == 2048

NoValue == -1

(***************************************************************************)
(* State.                                                                  *)
(***************************************************************************)
VARIABLES
    dns_servers,       \* main: the parsed server list (Vec<IpAddr>)
    attempts,          \* main: requests per list entry (NonZeroUsize)
    rate_limit,        \* main: args.rate_limit, seconds
    now,               \* the monotonic clock read by Instant::now()
    pc,                \* position of the single thread of control
    attempt,           \* outer loop counter, 0-based
    idx,               \* inner loop position in dns_servers, 1-based
    last_start_times,  \* main: HashMap<&IpAddr, Instant>
    results,           \* main: Vec<BenchResult>
    issued,            \* history: the clock at each call of resolve
    duration_from_previous_run,  \* main line 55, NoValue outside lines 55-60
    time_to_wait,      \* main lines 56-58, NoValue outside lines 56-60
    start,             \* resolve: Instant taken before the socket is bound
    localhost,         \* resolve: the UdpSocket, "none" or "open"
    resolve_elapsed,   \* resolve: start.elapsed() after recv_from
    events,            \* history: the steps the current call of resolve has taken
    msg_id,            \* resolve: the id of the query (line 21); held by SpecDecode only
    response_as_bytes, \* resolve: the datagram received (line 38); held by SpecDecode only
    elapsed,           \* main: the Result<Duration> returned by resolve
    dns_results,       \* main: Vec<DnsResult>
    table              \* render_result: Vec<TableResult>

vars == <<dns_servers, attempts, rate_limit, now, pc, attempt, idx,
          last_start_times, results, issued, duration_from_previous_run,
          time_to_wait, start, localhost, resolve_elapsed, events, msg_id,
          response_as_bytes, elapsed, dns_results, table>>

args == <<dns_servers, attempts, rate_limit>>

wait_locals == <<duration_from_previous_run, time_to_wait>>

resolve_locals == <<start, localhost, resolve_elapsed>>

datagram == <<msg_id, response_as_bytes>>

report == <<dns_results, table>>

(***************************************************************************)
(* Values.                                                                 *)
(***************************************************************************)
Ok(d) == [tag |-> "Ok", d |-> d]

Err == [tag |-> "Err", d |-> 0]

Success(d) == [tag |-> "Success", d |-> d]

Failed == [tag |-> "Failed", d |-> 0]

BenchResult(server, result) == [dns_server |-> server, result |-> result]

SeqsUpTo(S, n) == UNION {[1..k -> S] : k \in 0..n}

AddrRank(a) == CHOOSE k \in 1..Len(AddrOrder) : AddrOrder[k] = a

\* the program only compares addresses for equality: the lists are drawn up
\* to a renaming of the addresses, each new address being the next of AddrOrder
FirstUse(list) ==
    \A k \in 1..Len(list) :
        \/ AddrRank(list[k]) = 1
        \/ \E j \in 1..(k - 1) : AddrRank(list[j]) >= AddrRank(list[k]) - 1

ServerLists == {list \in SeqsUpTo(Addrs, MaxServers) : FirstUse(list)}

(***************************************************************************)
(* std::time helpers.                                                      *)
(***************************************************************************)
DurationFromSecs(s) == s * MicrosPerSec

\* Instant::duration_since saturates to zero
DurationSince(later, earlier) == IF later >= earlier THEN later - earlier ELSE 0

\* Duration::checked_sub(..).unwrap_or_default()
\* plain subtraction of the two durations
SubUnchecked(a, b) == a - b

CheckedSubOrDefault(a, b) == IF a >= b THEN a - b ELSE 0

\* milliseconds rounded to the nearest
AsMillisRounded(d) == (d + (MicrosPerMilli \div 2)) \div MicrosPerMilli

\* Duration::as_millis truncates
AsMillis(d) == d \div MicrosPerMilli

\* the operands of checked_sub exchanged
TimeToWaitSwapped(previous_time) ==
    CheckedSubOrDefault(DurationSince(now, previous_time),
                        DurationFromSecs(rate_limit))

TimeToWait(previous_time) ==
    CheckedSubOrDefault(DurationFromSecs(rate_limit),
                        DurationSince(now, previous_time))

\* std::thread::sleep blocks for at least d; a zero duration returns at once
SleepEnds(d) == IF d = 0 THEN {now} ELSE {now + d, now + d + SleepOvershoot}

(***************************************************************************)
(* Init: main up to the loop (lines 41-51).                                *)
(***************************************************************************)
LoopPc(a, servers, n) == IF a < n /\ Len(servers) > 0 THEN "rate_limit" ELSE "loop_exit"

Init ==
    /\ dns_servers \in ServerLists
    /\ attempts \in 1..MaxAttempts
    /\ Len(dns_servers) * attempts <= MaxRequests
    /\ rate_limit \in RateLimits
    /\ now = 0
    /\ attempt = 0
    /\ idx = 1
    /\ pc = LoopPc(0, dns_servers, attempts)
    /\ last_start_times = [a \in {} |-> 0]
    /\ results = <<>>
    /\ issued = <<>>
    /\ duration_from_previous_run = NoValue
    /\ time_to_wait = NoValue
    /\ start = 0
    /\ localhost = "none"
    /\ resolve_elapsed = 0
    /\ events = <<>>
    /\ msg_id = NoValue
    /\ response_as_bytes = NoValue
    /\ elapsed = Err
    /\ dns_results = <<>>
    /\ table = <<>>

(***************************************************************************)
(* The scheduler loop, main lines 52-72.                                   *)
(***************************************************************************)
\* a single last time for all servers: the latest entry, whatever its key
GetAny(map, key) ==
    IF DOMAIN map = {} THEN NoValue
    ELSE LET latest == CHOOSE k \in DOMAIN map : \A j \in DOMAIN map : map[j] <= map[k]
         IN map[latest]

\* HashMap::get, line 54: the entry of the key, NoValue for None
Get(map, key) == IF key \in DOMAIN map THEN map[key] ELSE NoValue

\* lines 54-60: wait out the rate limit of a server seen before
RateLimit ==
    /\ pc = "rate_limit"
    /\ LET previous_time == Get(last_start_times, dns_servers[idx]) IN
         IF previous_time # NoValue
         THEN /\ duration_from_previous_run' = DurationSince(now, previous_time)
              /\ time_to_wait' = TimeToWait(previous_time)
              /\ now' \in SleepEnds(time_to_wait')
         ELSE /\ now' = now
              /\ UNCHANGED wait_locals
    /\ pc' = "resolve"
    /\ UNCHANGED <<args, datagram, attempt, idx, last_start_times, results, issued,
                   resolve_locals, events, elapsed, report>>

\* resolve returns and its socket stays open
ReturnKeepsSocket(r) ==
    /\ elapsed' = r
    /\ start' = 0
    /\ UNCHANGED localhost
    /\ resolve_elapsed' = 0
    /\ events' = <<>>
    /\ pc' = "record"

\* resolve returns: its locals are dropped, the socket with them
Return(r) ==
    /\ elapsed' = r
    /\ start' = 0
    /\ localhost' = "none"
    /\ resolve_elapsed' = 0
    /\ events' = <<>>
    /\ pc' = "record"

\* line 61 and utils.rs lines 17-28: the call, the query is encoded, start is taken
ResolveEncode ==
    /\ pc = "resolve"
    /\ issued' = Append(issued, now)
    /\ duration_from_previous_run' = NoValue
    /\ time_to_wait' = NoValue
    /\ \/ /\ start' = now
          /\ events' = <<"emit", "start">>
          /\ pc' = "resolve_bind"
          /\ UNCHANGED <<localhost, resolve_elapsed, elapsed>>
       \/ Return(Err)
    /\ UNCHANGED <<args, datagram, now, attempt, idx, last_start_times, results, report>>

\* utils.rs line 29
ResolveBind ==
    /\ pc = "resolve_bind"
    /\ \/ /\ localhost' = "open"
          /\ events' = Append(events, "bind")
          /\ pc' = "resolve_configure"
          /\ UNCHANGED <<start, resolve_elapsed, elapsed>>
       \/ Return(Err)
    /\ UNCHANGED <<args, datagram, wait_locals, now, attempt, idx, last_start_times, results, issued, report>>

\* utils.rs lines 30-34
ResolveConfigure ==
    /\ pc = "resolve_configure"
    /\ \/ /\ pc' = "resolve_send"
          /\ events' = Append(events, "set_read_timeout")
          /\ UNCHANGED <<resolve_locals, elapsed>>
       \/ Return(Err)
    /\ UNCHANGED <<args, datagram, wait_locals, now, attempt, idx, last_start_times, results, issued, report>>

\* utils.rs lines 35-37
ResolveSend ==
    /\ pc = "resolve_send"
    /\ \/ /\ pc' = "resolve_recv"
          /\ events' = Append(events, "send_to")
          /\ UNCHANGED <<resolve_locals, elapsed>>
       \/ Return(Err)
    /\ UNCHANGED <<args, datagram, wait_locals, now, attempt, idx, last_start_times, results, issued, report>>

ReadTimeout == DurationFromSecs(ReadTimeoutSecs)

\* utils.rs lines 38-41: a datagram arrives, the read times out, or the read fails
ResolveRecv ==
    /\ pc = "resolve_recv"
    /\ \/ \E latency \in Latencies :
            /\ latency < ReadTimeout
            /\ now' = now + latency
            /\ resolve_elapsed' = DurationSince(now', start)
            /\ events' = events \o <<"recv_from", "elapsed">>
            /\ pc' = "resolve_decode"
            /\ UNCHANGED <<start, localhost, elapsed>>
       \/ /\ now' = now + ReadTimeout
          /\ Return(Err)
       \/ /\ now' = now
          /\ Return(Err)
    /\ UNCHANGED <<args, datagram, wait_locals, attempt, idx, last_start_times, results, issued, report>>

(***************************************************************************)
(* The response datagram as Message::from_vec sees it: whether the bytes   *)
(* parse, and the answer records with their type and parsed RDATA (a       *)
(* record of RDLENGTH 0 carries none).                                     *)
(***************************************************************************)
Answer(rtype, data) == [rtype |-> rtype, data |-> data]

AnswerRecords ==
    {Answer("A", "A"), Answer("A", "none"), Answer("CNAME", "CNAME")}

Responses ==
    {[parses |-> FALSE, answers |-> <<>>]}
        \cup {[parses |-> TRUE, answers |-> a] : a \in SeqsUpTo(AnswerRecords, 2)}

\* RData::to_ip_addr
ToIpAddr(data) == IF data \in {"A", "AAAA"} THEN "Some" ELSE "None"

\* utils.rs lines 43-50: "ok", "err" (the ? on line 48) or "panic" (the unwrap on line 45)
RECURSIVE CheckAnswers(_)
CheckAnswers(answers) ==
    IF answers = <<>> THEN "ok"
    ELSE LET answer == Head(answers) IN
         IF answer.rtype = "A"
         THEN IF answer.data = "none" THEN "panic"
              ELSE IF ToIpAddr(answer.data) = "None" THEN "err"
              ELSE CheckAnswers(Tail(answers))
         ELSE CheckAnswers(Tail(answers))

\* utils.rs lines 42-51: the outcome of resolve once a datagram has arrived
Decode(response) ==
    IF ~response.parses THEN "err"
    ELSE CheckAnswers(response.answers)

\* utils.rs lines 42-51: resolve returns or panics, as decoding goes
DecodeStep(outcome) ==
    CASE outcome = "ok" -> Return(Ok(resolve_elapsed))
      [] outcome = "err" -> Return(Err)
      [] OTHER ->
           /\ pc' = "resolve_panicked"
           /\ localhost' = "none"
           /\ events' = Append(events, "from_vec")
           /\ UNCHANGED <<start, resolve_elapsed, elapsed>>

\* utils.rs lines 42-51
ResolveDecode ==
    /\ pc = "resolve_decode"
    /\ \E response \in Responses : DecodeStep(Decode(response))
    /\ UNCHANGED <<args, datagram, wait_locals, now, attempt, idx, last_start_times, results, issued, report>>

\* main lines 63-66
ResultOf(r) == IF r.tag = "Ok" THEN Success(r.d) ELSE Failed

\* HashMap::insert
Insert(map, key, value) ==
    [k \in DOMAIN map \cup {key} |-> IF k = key THEN value ELSE map[k]]

\* the two loops of lines 52-53 exchanged: all attempts of a server, then the next
LoopRecordServerMajor ==
    /\ pc = "record"
    /\ LET dns_server == dns_servers[idx]
           result == BenchResult(dns_server, ResultOf(elapsed))
           last == attempt + 1 = attempts
       IN
         /\ last_start_times' = Insert(last_start_times, dns_server, now)
         /\ results' = Append(results, result)
         /\ attempt' = IF last THEN 0 ELSE attempt + 1
         /\ idx' = IF last /\ idx < Len(dns_servers) THEN idx + 1 ELSE idx
         /\ pc' = IF last /\ idx = Len(dns_servers) THEN "loop_exit" ELSE "rate_limit"
    /\ elapsed' = Err
    /\ UNCHANGED <<args, datagram, wait_locals, events, now, issued, resolve_locals, report>>

\* main lines 62-70 and the loop heads of lines 52-53
LoopRecord ==
    /\ pc = "record"
    /\ LET dns_server == dns_servers[idx]
           ended == now
           result == BenchResult(dns_server, ResultOf(elapsed))
           next_attempt == IF idx = Len(dns_servers) THEN attempt + 1 ELSE attempt
       IN
         /\ last_start_times' = Insert(last_start_times, dns_server, ended)
         /\ results' = Append(results, result)
         /\ idx' = IF idx = Len(dns_servers) THEN 1 ELSE idx + 1
         /\ attempt' = next_attempt
         /\ pc' = LoopPc(next_attempt, dns_servers, attempts)
    /\ elapsed' = Err
    /\ UNCHANGED <<args, datagram, wait_locals, events, now, issued, resolve_locals, report>>

\* main lines 73-76: the total time is printed.  Nothing below reads the clock,
\* the map of last start times or the history of issue times again: they are
\* cleared here.
LoopExit ==
    /\ pc = "loop_exit"
    /\ now' = 0
    /\ last_start_times' = [a \in {} |-> 0]
    /\ issued' = <<>>
    /\ pc' = "aggregate"
    /\ UNCHANGED <<args, datagram, wait_locals, events, attempt, idx, results, resolve_locals, elapsed, report>>

(***************************************************************************)
(* hdrhistogram's Histogram::<u64>::new(3), main line 84: auto-resizing,   *)
(* one count per bucket.  Values below SubBucketCount have buckets of      *)
(* width 1; each doubling of the value doubles the width.                  *)
(***************************************************************************)
RECURSIVE BucketWidth(_)
BucketWidth(v) == IF v < SubBucketCount THEN 1 ELSE 2 * BucketWidth(v \div 2)

LowestEquivalent(v) == v - (v % BucketWidth(v))

HighestEquivalent(v) == LowestEquivalent(v) + BucketWidth(v) - 1

MedianEquivalent(v) == LowestEquivalent(v) + (BucketWidth(v) \div 2)

\* Histogram::new: no counts; min_non_zero_value and max_value unset
NewHist ==
    [counts |-> EmptyBag, total_count |-> 0,
     min_non_zero_value |-> NoValue, max_value |-> NoValue]

\* Histogram::record
HistRecord(h, v) ==
    [counts |-> h.counts (+) SetToBag({LowestEquivalent(v)}),
     total_count |-> h.total_count + 1,
     min_non_zero_value |->
        IF v # 0 /\ (h.min_non_zero_value = NoValue \/ v < h.min_non_zero_value)
        THEN v ELSE h.min_non_zero_value,
     max_value |-> IF v > h.max_value THEN v ELSE h.max_value]

\* Histogram::len
HistLen(h) == h.total_count

\* Histogram::min
HistMin(h) ==
    IF h.total_count = 0 \/ BagIn(0, h.counts) THEN 0
    ELSE LowestEquivalent(h.min_non_zero_value)

\* Histogram::max
HistMax(h) == IF h.max_value = NoValue THEN 0 ELSE HighestEquivalent(h.max_value)

RECURSIVE WeightedSum(_, _)
WeightedSum(counts, S) ==
    IF S = {} THEN 0
    ELSE LET v == CHOOSE x \in S : TRUE IN
         MedianEquivalent(v) * counts[v] + WeightedSum(counts, S \ {v})

\* a mean that divides by the sample count even when it is zero
HistMeanUnguarded(h) ==
    [nan |-> h.total_count = 0,
     num |-> WeightedSum(h.counts, BagToSet(h.counts)),
     den |-> IF h.total_count = 0 THEN 1 ELSE h.total_count]

\* Histogram::mean as the fraction num/den; 0.0 for an empty histogram, never NaN
HistMean(h) ==
    IF h.total_count = 0
    THEN [nan |-> FALSE, num |-> 0, den |-> 1]
    ELSE [nan |-> FALSE, num |-> WeightedSum(h.counts, BagToSet(h.counts)),
          den |-> h.total_count]

CeilDiv(a, b) == (a + b - 1) \div b

CountUpTo(h, v) ==
    LET below == {u \in BagToSet(h.counts) : u <= v} IN
      BagCardinality([u \in below |-> h.counts[u]])

\* Histogram::value_at_percentile, the percentile given in tenths of a percent
ValueAtPercentile(h, permille) ==
    LET quantile == IF permille > 1000 THEN 1000 ELSE permille
        ceiled == CeilDiv(quantile * h.total_count, 1000)
        count_at_quantile == IF ceiled = 0 THEN 1 ELSE ceiled
        reached == {v \in BagToSet(h.counts) : CountUpTo(h, v) >= count_at_quantile}
    IN IF reached = {} THEN 0
       ELSE LET value == CHOOSE v \in reached : \A u \in reached : v <= u
            IN IF quantile = 0 THEN LowestEquivalent(value) ELSE HighestEquivalent(value)

\* f64::partial_cmp on two means: "None" when either is NaN
PartialCmp(a, b) ==
    IF a.nan \/ b.nan THEN "None"
    ELSE IF a.num * b.den < b.num * a.den THEN "Less"
    ELSE IF a.num * b.den > b.num * a.den THEN "Greater"
    ELSE "Equal"

(***************************************************************************)
(* Aggregation, main lines 77-96.                                          *)
(***************************************************************************)
\* line 79: references to addresses compare by value
FilterByDns(rs, dns_server) == SelectSeq(rs, LAMBDA r : r.dns_server = dns_server)

\* the count without the filter of line 82
FailedRequestsUnfiltered(rs) == Len(rs)

\* lines 80-83
FailedRequests(rs) == Len(SelectSeq(rs, LAMBDA r : r.result = Failed))

\* lines 84-89
RECURSIVE RecordAll(_, _)
RecordAll(hist, rs) ==
    IF rs = <<>> THEN hist
    ELSE LET res == Head(rs) IN
         IF res.result.tag = "Success"
         THEN RecordAll(HistRecord(hist, AsMillis(res.result.d)), Tail(rs))
         ELSE RecordAll(hist, Tail(rs))

\* lines 78-95: the summary of one entry of the server list
DnsResult(dns_server, rs) ==
    LET filter_by_dns == FilterByDns(rs, dns_server) IN
      [dns |-> dns_server,
       failed |-> FailedRequests(filter_by_dns),
       hist |-> RecordAll(NewHist, filter_by_dns)]

\* lines 77-96
Aggregate ==
    /\ pc = "aggregate"
    /\ dns_results' = [k \in 1..Len(dns_servers) |-> DnsResult(dns_servers[k], results)]
    /\ pc' = "sort"
    /\ UNCHANGED <<args, datagram, wait_locals, events, now, attempt, idx, last_start_times, results, issued,
                   resolve_locals, elapsed, table>>

(***************************************************************************)
(* Ranking, main line 97: sort_unstable_by on the means.  The order of     *)
(* elements that compare equal is not specified.                           *)
(***************************************************************************)
Orderings(n) == Permutations(1..n)

Permuted(seq, p) == [k \in 1..Len(seq) |-> seq[p[k]]]

\* the means, one per element, as the comparison closure of line 97 reads them
Means(seq) == [k \in 1..Len(seq) |-> HistMean(seq[k].hist)]

\* the order p puts no element before one that compares Less than it
IsSortedByMean(mean, p) ==
    \A i, j \in DOMAIN mean :
        i < j => PartialCmp(mean[p[j]], mean[p[i]]) # "Less"

\* the unwrap of line 97 panics as soon as one comparison yields None
ComparePanics(seq) ==
    LET mean == Means(seq) IN
      \E i, j \in DOMAIN mean : i # j /\ PartialCmp(mean[i], mean[j]) = "None"

\* the sort left out
SortKeepsOrder(seq) == {seq}

\* a sort with the comparison reversed
SortDescending(seq) ==
    LET mean == Means(seq) IN
      {Permuted(seq, p) : p \in {q \in Orderings(Len(seq)) :
          \A i, j \in DOMAIN mean :
              i < j => PartialCmp(mean[q[i]], mean[q[j]]) # "Less"}}

\* every result sort_unstable_by may leave in the vector
SortUnstableBy(seq) ==
    LET mean == Means(seq) IN
      {Permuted(seq, p) : p \in {q \in Orderings(Len(seq)) : IsSortedByMean(mean, q)}}

\* line 97
Sort ==
    /\ pc = "sort"
    /\ IF ComparePanics(dns_results)
       THEN pc' = "sort_panicked" /\ UNCHANGED dns_results
       ELSE pc' = "render" /\ dns_results' \in SortUnstableBy(dns_results)
    /\ UNCHANGED <<args, datagram, wait_locals, events, now, attempt, idx, last_start_times, results, issued,
                   resolve_locals, elapsed, table>>

(***************************************************************************)
(* Reporting, main line 100 and render_result lines 104-121.               *)
(***************************************************************************)
TableResult(dns_result, n) ==
    [dns |-> dns_result.dns,
     requests |-> n,
     errors |-> dns_result.failed,
     min |-> HistMin(dns_result.hist),
     p50 |-> ValueAtPercentile(dns_result.hist, 500),
     p95 |-> ValueAtPercentile(dns_result.hist, 950),
     p99 |-> ValueAtPercentile(dns_result.hist, 990),
     p999 |-> ValueAtPercentile(dns_result.hist, 999),
     max |-> HistMax(dns_result.hist)]

Render ==
    /\ pc = "render"
    /\ table' = [k \in 1..Len(dns_results) |-> TableResult(dns_results[k], attempts)]
    /\ pc' = "done"
    /\ UNCHANGED <<args, datagram, wait_locals, events, now, attempt, idx, last_start_times, results, issued,
                   resolve_locals, elapsed, dns_results>>

(***************************************************************************)
(* The program.                                                            *)
(***************************************************************************)
Next ==
    \/ RateLimit
    \/ ResolveEncode
    \/ ResolveBind
    \/ ResolveConfigure
    \/ ResolveSend
    \/ ResolveRecv
    \/ ResolveDecode
    \/ LoopRecord
    \/ LoopExit
    \/ Aggregate
    \/ Sort
    \/ Render

Spec == Init /\ [][Next]_vars

(***************************************************************************)
(* The decoding of one datagram, with the ids of query and response.       *)
(* SpecDecode starts where the first request of a run has received a       *)
(* datagram (utils.rs line 41 done) and takes the step of lines 42-51 on   *)
(* every pair of a query id and a datagram.                                *)
(***************************************************************************)
U16Max == 65535

\* rand::random::<u16>(), utils.rs line 21
QueryIds == {0, 1, U16Max}

\* a received datagram: the id of its header and what Responses tells of it
Datagram(id, response) ==
    [id |-> id % (U16Max + 1), parses |-> response.parses, answers |-> response.answers]

Datagrams == {Datagram(id, response) : id \in QueryIds, response \in Responses}

\* the response is taken only if it carries the id of the query
ResolveOutcomeMatchingId(id, received) ==
    IF received.parses /\ received.id # id THEN "err" ELSE Decode(received)

\* utils.rs lines 42-51 with the query `msg` of lines 20-25 in scope: no line
\* reads the id of the query or of the response
ResolveOutcome(id, received) == Decode(received)

InitDecode ==
    /\ dns_servers \in ServerLists
    /\ Len(dns_servers) > 0
    /\ attempts \in 1..MaxAttempts
    /\ Len(dns_servers) * attempts <= MaxRequests
    /\ rate_limit \in RateLimits
    /\ \E latency \in Latencies :
         /\ now = latency
         /\ resolve_elapsed = latency
    /\ attempt = 0
    /\ idx = 1
    /\ pc = "resolve_decode"
    /\ last_start_times = [a \in {} |-> 0]
    /\ results = <<>>
    /\ issued = <<0>>
    /\ duration_from_previous_run = NoValue
    /\ time_to_wait = NoValue
    /\ start = 0
    /\ localhost = "open"
    /\ events = <<"emit", "start", "bind", "set_read_timeout", "send_to",
                  "recv_from", "elapsed">>
    /\ msg_id \in QueryIds
    /\ response_as_bytes \in Datagrams
    /\ elapsed = Err
    /\ dns_results = <<>>
    /\ table = <<>>

\* utils.rs lines 42-51 on the datagram held in response_as_bytes
ResolveDecodeReceived ==
    /\ pc = "resolve_decode"
    /\ DecodeStep(ResolveOutcome(msg_id, response_as_bytes))
    /\ UNCHANGED <<args, datagram, wait_locals, now, attempt, idx, last_start_times,
                   results, issued, report>>

NextDecode == ResolveDecodeReceived

SpecDecode == InitDecode /\ [][NextDecode]_vars

(***************************************************************************)
(* Properties.                                                             *)
(***************************************************************************)
LoopPcs ==
    {"rate_limit", "resolve", "resolve_bind", "resolve_configure", "resolve_send",
     "resolve_recv", "resolve_decode", "record"}

Aggregated == pc \in {"sort", "render", "done", "sort_panicked"}

Ranked == pc \in {"render", "done"}

TotalRequests == attempts * Len(dns_servers)

\* the list entry the k-th request of a run is for (k from 1)
ServerOfRequest(k) == dns_servers[((k - 1) % Len(dns_servers)) + 1]

Accounted(dns_result) == dns_result.failed + HistLen(dns_result.hist)

RECURSIVE SumAccounted(_)
SumAccounted(seq) ==
    IF seq = <<>> THEN 0 ELSE Accounted(Head(seq)) + SumAccounted(Tail(seq))

MeanCmp(a, b) == PartialCmp(HistMean(a.hist), HistMean(b.hist))

Occurrences(dns_server) == Cardinality({k \in 1..Len(dns_servers) : dns_servers[k] = dns_server})

Position(dns_server) == CHOOSE k \in 1..Len(dns_servers) : dns_servers[k] = dns_server

\* C1: after aggregation every entry of the server list has
\* failed + histogram samples = attempts, and over all summaries the sum is
\* attempts * number of servers.
C1_FailedPlusSamplesIsAttempts ==
    Aggregated =>
        /\ \A k \in 1..Len(dns_results) : Accounted(dns_results[k]) = attempts
        /\ SumAccounted(dns_results) = TotalRequests

\* C2: two consecutive requests to the same server address are issued at
\* least the rate limit apart.
C2_SameServerIssuedRateLimitApart ==
    \A k1, k2 \in 1..Len(issued) :
        (/\ k1 < k2
         /\ ServerOfRequest(k1) = ServerOfRequest(k2)
         /\ \A k \in (k1 + 1)..(k2 - 1) : ServerOfRequest(k) # ServerOfRequest(k1))
        => issued[k2] - issued[k1] >= DurationFromSecs(rate_limit)

\* a second request to a server was held back by a sleep the rate limit required
C2_Witness ==
    /\ rate_limit > 0
    /\ \E k1, k2 \in 1..Len(issued) :
        /\ k1 < k2
        /\ ServerOfRequest(k1) = ServerOfRequest(k2)
        /\ issued[k2] - issued[k1] = DurationFromSecs(rate_limit) + SleepOvershoot
        /\ Len(results) >= k1 /\ results[k1].result = Failed

\* C3: a failure of resolve is recorded as one Failed outcome of its
\* (attempt, server) pair, is not retried, and never aborts the run.
C3_FailureRecordedAndRunContinues ==
    /\ pc # "resolve_panicked"
    /\ pc \in LoopPcs => Len(issued) - Len(results) \in {0, 1}
    /\ (pc = "record" /\ elapsed.tag = "Err") => Len(issued) = Len(results) + 1
    /\ \A k \in 1..Len(results) : results[k].dns_server = ServerOfRequest(k)

\* C4: the scheduler loop always ends after exactly attempts * servers
\* requests, a timed-out request counted as Failed, and the run goes on to
\* aggregation and reporting.
C4_LoopEndsAfterAllRequests ==
    pc \notin LoopPcs =>
        /\ Len(results) = TotalRequests
        /\ pc = "loop_exit" => Len(issued) = TotalRequests
        /\ pc \in {"loop_exit", "aggregate", "sort", "render", "done"}

\* C5: the k-th emitted pair (k from 0) is for servers[k mod M] in attempt
\* floor(k / M) + 1, one pair per iteration, and a request is issued only
\* when the outcome of every earlier request has been emitted.
C5_AttemptMajorServerMinor ==
    /\ \A k \in 1..Len(results) :
        /\ results[k].dns_server = ServerOfRequest(k)
        /\ ((k - 1) \div Len(dns_servers)) + 1 <= attempts
    /\ pc \in LoopPcs =>
        /\ Len(results) = attempt * Len(dns_servers) + (idx - 1)
        /\ attempt = Len(results) \div Len(dns_servers)
        /\ idx = (Len(results) % Len(dns_servers)) + 1
    /\ pc \in {"rate_limit", "resolve"} => Len(issued) = Len(results)
    /\ pc \in LoopPcs \ {"rate_limit", "resolve"} => Len(issued) = Len(results) + 1

\* a second round over two different servers has been emitted
C5_Witness ==
    /\ Len(dns_servers) = 2
    /\ dns_servers[1] # dns_servers[2]
    /\ Len(results) = 4
    /\ results[3].result.tag = "Success"
    /\ results[4].result = Failed

\* every request to dns_server succeeded with a round trip of ms whole milliseconds
AllSucceededAt(dns_server, ms) ==
    LET rs == FilterByDns(results, dns_server) IN
      /\ rs # <<>>
      /\ \A k \in 1..Len(rs) :
            rs[k].result.tag = "Success" /\ AsMillis(rs[k].result.d) = ms

\* the two round trips of the model in whole milliseconds: 10 and 50
FastMs == AsMillis(CHOOSE l \in Latencies : \A m \in Latencies : l <= m)

SlowMs == AsMillis(CHOOSE l \in Latencies : \A m \in Latencies : l >= m)

\* C6: the ranked summaries are in ascending order of mean latency: none
\* with a strictly larger mean precedes one with a strictly smaller mean;
\* a server answering always in 10 ms is reported before one answering
\* always in 50 ms, with p50 = 10, p50 = 50 and no errors.
C6_RankedAscendingByMean ==
    /\ Ranked =>
        LET mean == Means(dns_results) IN
          \A i, j \in DOMAIN mean :
              i < j => PartialCmp(mean[i], mean[j]) # "Greater"
    /\ pc = "done" =>
        LET fast == {k \in 1..Len(table) : AllSucceededAt(table[k].dns, FastMs)}
            slow == {k \in 1..Len(table) : AllSucceededAt(table[k].dns, SlowMs)}
        IN \A i \in fast, j \in slow :
              /\ i < j
              /\ table[i].p50 = FastMs /\ table[j].p50 = SlowMs
              /\ table[i].errors = 0 /\ table[j].errors = 0

\* the slow server is listed first, the fast one second, and the report has them exchanged
C6_Witness ==
    /\ pc = "done"
    /\ Len(dns_servers) = 2
    /\ attempts = 2
    /\ AllSucceededAt(dns_servers[1], SlowMs)
    /\ AllSucceededAt(dns_servers[2], FastMs)
    /\ table[1].dns = dns_servers[2]
    /\ table[2].dns = dns_servers[1]

C8_RankingNeverPanics ==
    /\ pc # "sort_panicked"
    /\ pc = "sort" => ~ComparePanics(dns_results) /\ SortUnstableBy(dns_results) # {}

\* a server without samples has been ranked with one that has samples
C8_Witness ==
    /\ Ranked
    /\ \E i, j \in 1..Len(dns_results) :
        /\ HistLen(dns_results[i].hist) = 0
        /\ HistLen(dns_results[j].hist) > 0

FailedOutcomes(dns_server) ==
    Cardinality({k \in 1..Len(results) :
        results[k].dns_server = dns_server /\ results[k].result = Failed})

\* C9: the rows handed to the renderer are a permutation of the server
\* list, one row per entry, each with Requests = attempts and Errors = the
\* number of Failed outcomes of its server.
C9_OneRowPerServer ==
    pc = "done" =>
        /\ Len(table) = Len(dns_servers)
        /\ \A a \in Addrs :
              Cardinality({k \in 1..Len(table) : table[k].dns = a}) = Occurrences(a)
        /\ \A k \in 1..Len(table) :
              /\ table[k].requests = attempts
              /\ table[k].errors = FailedOutcomes(table[k].dns)

\* a report of three rows, in another order than the input, one server with errors
C9_Witness ==
    /\ pc = "done"
    /\ Len(table) = 3
    /\ table[1].dns # dns_servers[1]
    /\ \E k \in 1..3 : table[k].errors > 0
    /\ \E k \in 1..3 : table[k].errors = 0

\* the last request made so far (k from 1) to a server address
LastRequestTo(dns_server) ==
    CHOOSE k \in 1..Len(results) :
        /\ results[k].dns_server = dns_server
        /\ \A j \in (k + 1)..Len(results) : results[j].dns_server # dns_server

\* C11: the time kept for a server in last_start_times is the time at which
\* its last request was issued (the clock when resolve was called), not a
\* time taken after that request completed.
C11_LastStartTimeIsIssueTime ==
    pc \in LoopPcs =>
        \A dns_server \in DOMAIN last_start_times :
            last_start_times[dns_server] = issued[LastRequestTo(dns_server)]

RequestedBefore(dns_server) ==
    \E k \in 1..Len(results) : results[k].dns_server = dns_server

\* C12: the rate limit is kept per server address.  The step of lines 54-60
\* does not sleep before the first request to an address, and before any
\* other request it measures the time gone by from the recorded time of that
\* same address, whichever server was queried last.
C12_RateLimitPerServer ==
    [][pc = "rate_limit" =>
        LET dns_server == dns_servers[idx] IN
          IF RequestedBefore(dns_server)
          THEN /\ duration_from_previous_run' = now - last_start_times[dns_server]
               /\ time_to_wait' # NoValue
               /\ now' >= now
          ELSE /\ now' = now
               /\ time_to_wait' = NoValue]_vars

\* after a request to another server, a first request goes out without a
\* wait although the other server was queried 10.4 ms ago
C12_Witness ==
    /\ pc = "resolve"
    /\ rate_limit > 0
    /\ Len(results) = 1
    /\ results[1].dns_server # dns_servers[idx]
    /\ results[1].result # Failed
    /\ time_to_wait = NoValue
    /\ now = last_start_times[results[1].dns_server]

\* C17: the wait of lines 56-58 is max(0, R - e) for the rate limit R and
\* the time e since the recorded time of the server: 0 when e >= R, never
\* negative, never more than R, 0 when R = 0; and the sleep of line 59 lasts
\* that long (it may overshoot, and returns at once for a wait of 0).
C17_WaitIsRateLimitMinusElapsed ==
    (pc = "resolve" /\ time_to_wait # NoValue) =>
        LET R == DurationFromSecs(rate_limit)
            e == duration_from_previous_run
            slept == now - (last_start_times[dns_servers[idx]] + e)
        IN
          /\ e >= 0
          /\ time_to_wait = (IF e >= R THEN 0 ELSE R - e)
          /\ time_to_wait >= 0
          /\ time_to_wait <= R
          /\ rate_limit = 0 => time_to_wait = 0
          /\ time_to_wait = 0 => slept = 0
          /\ slept \in {time_to_wait, time_to_wait + SleepOvershoot}

\* a server is due again after more than the rate limit (another server ran
\* into its read timeout meanwhile): no wait
C17_Witness ==
    /\ pc = "resolve"
    /\ rate_limit > 0
    /\ time_to_wait = 0
    /\ duration_from_previous_run > DurationFromSecs(rate_limit)
    /\ now = last_start_times[dns_servers[idx]] + duration_from_previous_run

\* the order of the steps of resolve as C13 has it
ClaimedOrder ==
    <<"bind", "set_read_timeout", "emit", "start", "send_to", "recv_from",
      "elapsed", "from_vec">>

IsPrefix(s, t) == Len(s) <= Len(t) /\ \A k \in 1..Len(s) : s[k] = t[k]

\* C13: a call of resolve takes its steps in the order bind, set the read
\* timeout, encode, take start, send, receive, take elapsed, decode (a step
\* that fails ends the call): start is taken once the socket is bound and
\* configured, and elapsed before the response is decoded.
C13_StartTakenAfterBind ==
    /\ IsPrefix(events, ClaimedOrder)
    /\ pc \in {"resolve_bind", "resolve_configure", "resolve_send"} => localhost = "open"

\* positions inside resolve at which the socket of line 29 is in scope
SocketInScope == {"resolve_configure", "resolve_send", "resolve_recv", "resolve_decode"}

InResolve == pc \in SocketInScope \cup {"resolve_bind"}

Binds == Cardinality({k \in 1..Len(events) : events[k] = "bind"})

\* C15: a call of resolve binds at most one socket, and the socket is closed
\* on every way out of the call (a failing step, the read timeout, a decode
\* error, a normal return, a panic): outside resolve no socket is open and
\* none of the locals of resolve is kept.
C15_SocketClosedOutsideResolve ==
    /\ Binds <= 1
    /\ localhost = "open" => pc \in SocketInScope
    /\ ~InResolve /\ pc # "resolve_panicked" =>
          /\ localhost = "none"
          /\ start = 0
          /\ resolve_elapsed = 0
          /\ events = <<>>

\* a call that bound its socket and ran into the read timeout has returned,
\* and an earlier call had returned a measurement
C15_Witness ==
    /\ pc = "record"
    /\ elapsed = Err
    /\ Len(issued) = 2
    /\ now - issued[2] = ReadTimeout
    /\ results[1].result # Failed
    /\ localhost = "none"

\* a response that parses and whose address records each carry an address
WellFormed(received) ==
    /\ received.parses
    /\ \A k \in 1..Len(received.answers) :
          received.answers[k].rtype = "A" => received.answers[k].data = "A"

\* C14: resolve does not compare the id of the response with the id of the
\* query: a well-formed response makes the call return Ok with the elapsed
\* time measured on line 41, whatever the two ids are.
C14_ResponseIdNotCompared ==
    [][(pc = "resolve_decode" /\ WellFormed(response_as_bytes)) =>
          /\ pc' = "record"
          /\ elapsed' = Ok(resolve_elapsed)]_vars

\* a response with an address answer and another id than the query's has
\* been taken as a success
C14_Witness ==
    /\ pc = "record"
    /\ elapsed.tag = "Ok"
    /\ elapsed.d = now - issued[1]
    /\ response_as_bytes.id # msg_id
    /\ Len(response_as_bytes.answers) > 0
    /\ response_as_bytes.answers[1].rtype = "A"

(***************************************************************************)
(* The report of a finished loop.  SpecReport starts after the loop        *)
(* (main line 76) with any outcomes the requests of the run can have had,  *)
(* the elapsed times drawn from ElapsedTimes, and runs lines 77-100.       *)
(***************************************************************************)
\* elapsed times (microseconds) of successful requests: below 1 ms, 10 ms,
\* and two between 2048 ms and the read timeout
ElapsedTimes == {900, 10400, 2998700, 2999300}

Outcomes == {Failed} \cup {Success(d) : d \in ElapsedTimes}

InitReport ==
    /\ dns_servers \in ServerLists
    /\ attempts \in 1..MaxAttempts
    /\ Len(dns_servers) * attempts <= MaxRequests
    /\ rate_limit = 0
    /\ now = 0
    /\ attempt = IF Len(dns_servers) = 0 THEN 0 ELSE attempts
    /\ idx = 1
    /\ pc = "aggregate"
    /\ last_start_times = [a \in {} |-> 0]
    /\ \E outcomes \in [1..TotalRequests -> Outcomes] :
         results = [k \in 1..TotalRequests |->
                      BenchResult(ServerOfRequest(k), outcomes[k])]
    /\ issued = <<>>
    /\ duration_from_previous_run = NoValue
    /\ time_to_wait = NoValue
    /\ start = 0
    /\ localhost = "none"
    /\ resolve_elapsed = 0
    /\ events = <<>>
    /\ msg_id = NoValue
    /\ response_as_bytes = NoValue
    /\ elapsed = Err
    /\ dns_results = <<>>
    /\ table = <<>>

NextReport ==
    \/ Aggregate
    \/ Sort
    \/ Render

SpecReport == InitReport /\ [][NextReport]_vars

\* the elapsed times of the successes of a server, in whole milliseconds
SuccessMillis(dns_server) ==
    {results[k].result.d \div MicrosPerMilli :
        k \in {j \in 1..Len(results) :
                 results[j].dns_server = dns_server /\ results[j].result # Failed}}

Successes(dns_server, ms) ==
    Cardinality({k \in 1..Len(results) :
        /\ results[k].dns_server = dns_server
        /\ results[k].result # Failed
        /\ results[k].result.d \div MicrosPerMilli = ms})

Smallest(S) == CHOOSE v \in S : \A u \in S : v <= u

Largest(S) == CHOOSE v \in S : \A u \in S : v >= u

\* C16: for every server with a success the Min and Max of its row are
\* exactly the smallest and the largest elapsed time, truncated to whole
\* milliseconds, of its successes, whatever the elapsed times are.
C16_MinMaxExact ==
    pc = "done" =>
        \A k \in 1..Len(table) :
            LET S == SuccessMillis(table[k].dns) IN
              S # {} =>
                /\ table[k].min = Smallest(S)
                /\ table[k].max = Largest(S)

\* C16 as the program has it: every success is recorded as its elapsed time
\* truncated to whole milliseconds; Min and Max are exact for values below
\* 2048 ms, and from there on are the lower and the upper end of the
\* histogram bucket of the smallest and the largest value, less than a
\* 1024th of the value away.
C16_MinMaxWithinBucket ==
    pc = "done" =>
        /\ \A k \in 1..Len(dns_results) :
              LET h == dns_results[k].hist
                  dns_server == dns_results[k].dns
              IN
                /\ HistLen(h) = Cardinality({j \in 1..Len(results) :
                      results[j].dns_server = dns_server /\ results[j].result # Failed})
                /\ \A v \in BagToSet(h.counts) :
                      /\ v >= 0
                      /\ v < SubBucketCount => v \in SuccessMillis(dns_server)
                /\ \A v \in SuccessMillis(dns_server) :
                      v < SubBucketCount =>
                          CopiesIn(v, h.counts) = Successes(dns_server, v)
        /\ \A k \in 1..Len(table) :
              LET S == SuccessMillis(table[k].dns) IN
                S # {} =>
                  LET lo == Smallest(S)
                      hi == Largest(S)
                  IN
                    /\ table[k].min <= lo
                    /\ table[k].max >= hi
                    /\ lo < SubBucketCount => table[k].min = lo
                    /\ hi < SubBucketCount => table[k].max = hi
                    /\ (lo - table[k].min) * (SubBucketCount \div 2) < lo + 1
                    /\ (table[k].max - hi) * (SubBucketCount \div 2) < hi + 1

\* a report with a row whose only successes took 2999 ms and are shown with
\* Min 2998, and a row of 0 ms and 10 ms shown exactly
C16_Witness ==
    /\ pc = "done"
    /\ \E k \in 1..Len(table) :
          LET S == SuccessMillis(table[k].dns) IN
            /\ S # {}
            /\ Smallest(S) >= SubBucketCount
            /\ table[k].min < Smallest(S)
            /\ table[k].max = Largest(S)
    /\ \E k \in 1..Len(table) :
          LET S == SuccessMillis(table[k].dns) IN
            /\ Cardinality(S) = 2
            /\ table[k].min = 0
            /\ table[k].max = Smallest(S \ {0})
            /\ table[k].max < SubBucketCount

====
